---- MODULE Spec2Model ----
(***************************************************************************)
(* Model of rllib/connectors/learner/add_columns_from_episodes_to_train_  *)
(* batch.py: AddColumnsFromEpisodesToTrainBatch.__call__, the Learner      *)
(* connector piece that copies actions, rewards, terminateds, truncateds   *)
(* and the extra model outputs of the episodes into the train batch.       *)
(*                                                                         *)
(* A batch column is a sequence of items [ep |-> id, val |-> value]: the   *)
(* value appended and the single-agent episode it was appended for.        *)
(***************************************************************************)
EXTENDS Integers, Sequences, FiniteSets, TLC

VARIABLES episodes, batch, entry, skip_columns, called

vars == <<episodes, batch, entry, skip_columns, called>>

(* ---------------- bounds of the model ---------------- *)

\* longest single-agent episode (timesteps)
MaxLen == 2

\* most single-agent episodes in one episode collection
MaxViews == 2

(* ---------------- Columns (ray.rllib.core.columns) ---------------- *)

Columns_ACTIONS == "actions"

Columns_REWARDS == "rewards"

Columns_TERMINATEDS == "terminateds"

Columns_TRUNCATEDS == "truncateds"

Columns_STATE_IN == "state_in"

Columns_STATE_OUT == "state_out"

Columns_OBS == "obs"

Columns_ACTION_LOGP == "action_logp"

CoreColumns ==
    {Columns_ACTIONS, Columns_REWARDS, Columns_TERMINATEDS, Columns_TRUNCATEDS}

ReservedColumns == {Columns_STATE_IN, Columns_STATE_OUT}

(* ---------------- single-agent episodes ---------------- *)

\* a value stored in field `field` (under key `key`) of episode id at timestep ts
Stored(field, key, id, ts) == [field |-> field, key |-> key, id |-> id, ts |-> ts]

\* A single-agent episode with identity id, T timesteps, the given terminal
\* flags and an extra_model_outputs mapping with the given keys. The values
\* it stores are read through the accessors below: each is tagged with the
\* field, the key, the episode and the timestep it belongs to, so that any
\* two stored values differ.
SAEpisode(id, T, term, trunc, stepped, keys) ==
    [id_ |-> id,
     len |-> T,
     is_terminated |-> term,
     is_truncated |-> trunc,
     stepped |-> stepped,
     extra_model_outputs |-> keys]

\* the kinds of episode a collection is drawn from: terminal flags, whether
\* the agent stepped, and the keys of extra_model_outputs
EpisodeProfiles ==
    {[term |-> FALSE, trunc |-> FALSE, stepped |-> TRUE, keys |-> {}],
     [term |-> TRUE, trunc |-> FALSE, stepped |-> TRUE,
      keys |-> {Columns_ACTION_LOGP}],
     [term |-> FALSE, trunc |-> TRUE, stepped |-> TRUE,
      keys |-> {Columns_STATE_IN, Columns_ACTION_LOGP}],
     [term |-> TRUE, trunc |-> TRUE, stepped |-> TRUE,
      keys |-> {Columns_STATE_OUT}],
     [term |-> FALSE, trunc |-> FALSE, stepped |-> TRUE,
      keys |-> {Columns_ACTIONS}],
     [term |-> FALSE, trunc |-> FALSE, stepped |-> FALSE,
      keys |-> {Columns_ACTION_LOGP}]}

\* the episodes that may stand at position id of a collection
SAEpisodes(id) ==
    {SAEpisode(id, T, p.term, p.trunc, p.stepped, p.keys) :
        T \in 0..MaxLen, p \in EpisodeProfiles}

\* len(sa_episode)
EpLen(sa_episode) == sa_episode.len

\* sa_episode.get_actions(indices=ts)
get_actions(sa_episode, ts) ==
    Stored("actions", Columns_ACTIONS, sa_episode.id_, ts)

\* sa_episode.get_rewards(indices=ts)
get_rewards(sa_episode, ts) ==
    Stored("rewards", Columns_REWARDS, sa_episode.id_, ts)

\* sa_episode.get_extra_model_outputs(key=column, indices=ts); asking for a
\* key the episode does not hold raises
get_extra_model_outputs(sa_episode, column, ts) ==
    IF column \in sa_episode.extra_model_outputs
    THEN [ok |-> TRUE,
          val |-> Stored("extra_model_outputs", column, sa_episode.id_, ts)]
    ELSE [ok |-> FALSE, val |-> Stored("KeyError", column, sa_episode.id_, ts)]

RECURSIVE SelectEpisodes(_, _)
SelectEpisodes(eps, stepped_only) ==
    IF eps = <<>> THEN <<>>
    ELSE IF stepped_only /\ ~Head(eps).stepped
         THEN SelectEpisodes(Tail(eps), stepped_only)
         ELSE <<Head(eps)>> \o SelectEpisodes(Tail(eps), stepped_only)

\* ConnectorV2.single_agent_episode_iterator(episodes, agents_that_stepped_only)
single_agent_episode_iterator(eps, agents_that_stepped_only) ==
    SelectEpisodes(eps, agents_that_stepped_only)

(* ---------------- the batch ---------------- *)

\* A batch in flight is [none, cols, failed]: none when the caller passed
\* None instead of a mapping, cols the mapping from column name to column,
\* failed once an exception has left __call__.
Keys(b) == DOMAIN b.cols

EmptyCols == [k \in {} |-> <<>>]

\* items a custom connector piece stored under column before this piece ran
UserColumn(column, n) ==
    [i \in 1..n |->
        [ep |-> 0,
         val |-> IF column \in {Columns_TERMINATEDS, Columns_TRUNCATEDS} THEN (i = n)
                 ELSE Stored("user", column, 0, i - 1)]]

\* key sets of the batches handed to __call__
PreKeySets ==
    {{}, {Columns_OBS}, {Columns_OBS, Columns_ACTIONS},
     {Columns_ACTIONS, Columns_REWARDS},
     {Columns_TERMINATEDS, Columns_TRUNCATEDS},
     {Columns_OBS, Columns_ACTION_LOGP}, {Columns_STATE_OUT},
     {Columns_OBS, Columns_ACTIONS, Columns_REWARDS, Columns_TERMINATEDS,
      Columns_TRUNCATEDS}}

\* item count of the pre-populated column
UserLen(column) ==
    IF column \in {Columns_REWARDS, Columns_ACTION_LOGP} THEN 2 ELSE 1

InputBatches ==
    {[none |-> TRUE, cols |-> EmptyCols, failed |-> FALSE]}
    \cup {[none |-> FALSE,
           cols |-> [k \in K |-> UserColumn(k, UserLen(k))],
           failed |-> FALSE] : K \in PreKeySets}

(* ---------------- ConnectorV2 helpers ---------------- *)

\* ConnectorV2.add_batch_item: the column is created by the first item
\* stored in it; the item is filed under the episode it comes from
add_batch_item(b, column, item_to_add, single_agent_episode) ==
    LET it == [ep |-> single_agent_episode.id_, val |-> item_to_add]
    IN  IF column \in Keys(b)
        THEN [b EXCEPT !.cols[column] = Append(@, it)]
        ELSE [b EXCEPT !.cols = (column :> <<it>>) @@ @]

RECURSIVE AddItems(_, _, _, _)
AddItems(b, column, items, single_agent_episode) ==
    IF items = <<>> THEN b
    ELSE AddItems(add_batch_item(b, column, Head(items), single_agent_episode),
                  column, Tail(items), single_agent_episode)

\* ConnectorV2.add_n_batch_items: rejects a list whose length is not
\* num_items, otherwise adds the items one by one
add_n_batch_items(b, column, items_to_add, num_items, single_agent_episode) ==
    IF Len(items_to_add) # num_items
    THEN [b EXCEPT !.failed = TRUE]
    ELSE AddItems(b, column, items_to_add, single_agent_episode)

(* ---------------- AddColumnsFromEpisodesToTrainBatch.__call__ ---------------- *)

\* the iterator's own default for the flag, in force when the argument is left out
agents_that_stepped_only_default == TRUE

\* the flag every loop of __call__ hands to single_agent_episode_iterator
agents_that_stepped_only == FALSE

\* [x] * n
Repeat(x, n) == [i \in 1..n |-> x]

\* [sa_episode.get_actions(indices=ts) for ts in range(len(sa_episode))]
ActionsItems(sa_episode) ==
    [i \in 1..EpLen(sa_episode) |-> get_actions(sa_episode, i - 1)]

\* [sa_episode.get_rewards(indices=ts) for ts in range(len(sa_episode))]
RewardsItems(sa_episode) ==
    [i \in 1..EpLen(sa_episode) |-> get_rewards(sa_episode, i - 1)]

\* [sa_episode.is_terminated] * len(sa_episode): the flag at every timestep
TerminatedsItemsEveryStep(sa_episode) ==
    Repeat(sa_episode.is_terminated, EpLen(sa_episode))

\* the same list without "if len(sa_episode) > 0 else []"
TerminatedsItemsNoGuard(sa_episode) ==
    Repeat(FALSE, EpLen(sa_episode) - 1) \o <<sa_episode.is_terminated>>

\* [False] * (len(sa_episode) - 1) + [sa_episode.is_terminated]
\* if len(sa_episode) > 0 else []
TerminatedsItems(sa_episode) ==
    IF EpLen(sa_episode) > 0
    THEN Repeat(FALSE, EpLen(sa_episode) - 1) \o <<sa_episode.is_terminated>>
    ELSE <<>>

\* [False] * (len(sa_episode) - 1) + [sa_episode.is_truncated]
\* if len(sa_episode) > 0 else []
TruncatedsItems(sa_episode) ==
    IF EpLen(sa_episode) > 0
    THEN Repeat(FALSE, EpLen(sa_episode) - 1) \o <<sa_episode.is_truncated>>
    ELSE <<>>

ItemsToAdd(column, sa_episode) ==
    CASE column = Columns_ACTIONS -> ActionsItems(sa_episode)
      [] column = Columns_REWARDS -> RewardsItems(sa_episode)
      [] column = Columns_TERMINATEDS -> TerminatedsItems(sa_episode)
      [] column = Columns_TRUNCATEDS -> TruncatedsItems(sa_episode)

\* one "for sa_episode in ...: self.add_n_batch_items(...)" loop; an
\* exception ends it with the batch as it is at that moment
RECURSIVE ForEachEpisode(_, _, _)
ForEachEpisode(b, column, eps) ==
    IF eps = <<>> \/ b.failed THEN b
    ELSE ForEachEpisode(
             add_n_batch_items(b, column, ItemsToAdd(column, Head(eps)),
                               EpLen(Head(eps)), Head(eps)),
             column, Tail(eps))

\* "if Columns.X not in batch: for sa_episode in ...", for one of the four
\* columns
ColumnPass(b, column, eps) ==
    IF b.failed \/ column \in Keys(b) THEN b
    ELSE ForEachEpisode(b, column,
             single_agent_episode_iterator(eps, agents_that_stepped_only))

\* the actions loop without "if Columns.ACTIONS not in batch"
ActionsPassUnguarded(b, eps) ==
    IF b.failed THEN b
    ELSE ForEachEpisode(b, Columns_ACTIONS,
             single_agent_episode_iterator(eps, agents_that_stepped_only))

ActionsPass(b, eps) == ColumnPass(b, Columns_ACTIONS, eps)

\* the rewards loop under the guard of the actions loop
RewardsPassActionsGuard(b, eps) ==
    IF b.failed \/ Columns_ACTIONS \in Keys(b) THEN b
    ELSE ForEachEpisode(b, Columns_REWARDS,
             single_agent_episode_iterator(eps, agents_that_stepped_only))

RewardsPass(b, eps) == ColumnPass(b, Columns_REWARDS, eps)

TerminatedsPass(b, eps) == ColumnPass(b, Columns_TERMINATEDS, eps)

TruncatedsPass(b, eps) == ColumnPass(b, Columns_TRUNCATEDS, eps)

\* skip_columns computed at the top of __call__, from the batch as passed in
BatchAtSkipOnEntry(on_entry, after_columns) == on_entry

\* the batch whose keys "set(batch.keys())" reads: the one the four loops
\* above have already written to
BatchAtSkip(on_entry, after_columns) == after_columns

\* skip_columns without the keys of the batch
SkipColumnsReservedOnly(b) == {Columns_STATE_IN, Columns_STATE_OUT}

\* skip_columns without the two state columns
SkipColumnsBatchKeysOnly(b) == Keys(b)

\* skip_columns = set(batch.keys()) | {Columns.STATE_IN, Columns.STATE_OUT}
SkipColumns(b) == Keys(b) \cup {Columns_STATE_IN, Columns_STATE_OUT}

\* a fixed schema: every episode is asked for action_logp
ExtraColumnsFixedSchema(sa_episode) ==
    sa_episode.extra_model_outputs \cup {Columns_ACTION_LOGP}

\* sa_episode.extra_model_outputs.keys()
ExtraColumns(sa_episode) == sa_episode.extra_model_outputs

\* the list comprehension over get_extra_model_outputs and the
\* add_n_batch_items call it feeds
AddExtraColumn(b, column, sa_episode) ==
    LET got == [i \in 1..EpLen(sa_episode) |->
                    get_extra_model_outputs(sa_episode, column, i - 1)]
    IN  IF \E i \in 1..EpLen(sa_episode) : ~got[i].ok
        THEN [b EXCEPT !.failed = TRUE]
        ELSE add_n_batch_items(b, column,
                 [i \in 1..EpLen(sa_episode) |-> got[i].val],
                 EpLen(sa_episode), sa_episode)

\* "for column in sa_episode.extra_model_outputs.keys():
\*      if column not in skip_columns: ..."
RECURSIVE ForEachExtraColumn(_, _, _, _)
ForEachExtraColumn(b, columns, skip, sa_episode) ==
    IF columns = {} \/ b.failed THEN b
    ELSE LET column == CHOOSE c \in columns : TRUE
         IN  ForEachExtraColumn(
                 IF column \notin skip
                 THEN AddExtraColumn(b, column, sa_episode)
                 ELSE b,
                 columns \ {column}, skip, sa_episode)

RECURSIVE ExtraLoop(_, _, _)
ExtraLoop(b, skip, eps) ==
    IF eps = <<>> \/ b.failed THEN b
    ELSE ExtraLoop(
             ForEachExtraColumn(b, ExtraColumns(Head(eps)), skip, Head(eps)),
             skip, Tail(eps))

\* the extra-model-outputs loop
ExtraPass(b, skip, eps) ==
    ExtraLoop(b, skip,
              single_agent_episode_iterator(eps, agents_that_stepped_only))

\* the batch after the four column loops
AfterColumns(b, eps) ==
    TruncatedsPass(TerminatedsPass(RewardsPass(ActionsPass(b, eps), eps), eps),
                   eps)

\* __call__ with a check in front that raises when the columns already in
\* the batch differ in item count
DoCallChecked(b, eps) ==
    IF b.none \/ (\E c1 \in Keys(b), c2 \in Keys(b) :
                      Len(b.cols[c1]) # Len(b.cols[c2]))
    THEN [batch |-> [b EXCEPT !.failed = TRUE], skip_columns |-> {}]
    ELSE LET after == AfterColumns(b, eps)
             skip == SkipColumns(BatchAtSkip(b, after))
         IN  IF after.failed THEN [batch |-> after, skip_columns |-> {}]
             ELSE [batch |-> ExtraPass(after, skip, eps),
                   skip_columns |-> skip]

\* __call__(batch=b, episodes=eps): the batch it leaves behind and the value
\* of its local skip_columns ({} when it raises before the assignment).
\* "Columns.ACTIONS not in batch" raises when batch is None.
DoCall(b, eps) ==
    IF b.none THEN [batch |-> [b EXCEPT !.failed = TRUE], skip_columns |-> {}]
    ELSE LET after == AfterColumns(b, eps)
             skip == SkipColumns(BatchAtSkip(b, after))
         IN  IF after.failed THEN [batch |-> after, skip_columns |-> {}]
             ELSE [batch |-> ExtraPass(after, skip, eps),
                   skip_columns |-> skip]

(* ---------------- the state machine ---------------- *)

\* the collections of exactly n episodes, episode i having identity i
RECURSIVE CollectionsOf(_)
CollectionsOf(n) ==
    IF n = 0 THEN {<<>>}
    ELSE {Append(eps, e) : eps \in CollectionsOf(n - 1), e \in SAEpisodes(n)}

EpisodeCollections == UNION {CollectionsOf(n) : n \in 0..MaxViews}

Init ==
    /\ episodes \in EpisodeCollections
    /\ batch \in InputBatches
    /\ entry = batch
    /\ skip_columns = {}
    /\ called = FALSE

\* one invocation of the connector piece on the pipeline's batch; the
\* pipeline stops at the first exception
Call ==
    /\ ~batch.failed
    /\ entry' = batch
    /\ LET r == DoCall(batch, episodes)
       IN  /\ batch' = r.batch
           /\ skip_columns' = r.skip_columns
    /\ called' = TRUE
    /\ UNCHANGED episodes

Next == Call

Spec == Init /\ [][Next]_vars

(* ---------------- what the claims speak of ---------------- *)

\* the latest call returned (it raised nothing)
Returned == called /\ ~batch.failed

RECURSIVE Flatten(_)
Flatten(ss) == IF ss = <<>> THEN <<>> ELSE Head(ss) \o Flatten(Tail(ss))

RECURSIVE TotalLen(_)
TotalLen(eps) == IF eps = <<>> THEN 0 ELSE Head(eps).len + TotalLen(Tail(eps))

\* number of items the views before view i contribute to a column all views
\* contribute to
Offset(eps, i) == TotalLen(SubSeq(eps, 1, i - 1))

\* what view v holds for one of the four columns at timestep ts
ViewValue(column, v, ts) ==
    CASE column = Columns_ACTIONS -> get_actions(v, ts)
      [] column = Columns_REWARDS -> get_rewards(v, ts)
      [] column = Columns_TERMINATEDS ->
            IF ts = v.len - 1 THEN v.is_terminated ELSE FALSE
      [] column = Columns_TRUNCATEDS ->
            IF ts = v.len - 1 THEN v.is_truncated ELSE FALSE

\* the views' sequences for one of the four columns, view after view
ExpectedColumn(column, eps) ==
    Flatten([i \in 1..Len(eps) |->
                [j \in 1..eps[i].len |->
                    [ep |-> eps[i].id_, val |-> ViewValue(column, eps[i], j - 1)]]])

\* the sequences of the views that declare extra-output key k, view after view
ExpectedExtra(k, eps) ==
    Flatten([i \in 1..Len(eps) |->
                IF k \in eps[i].extra_model_outputs
                THEN [j \in 1..eps[i].len |->
                         [ep |-> eps[i].id_,
                          val |-> Stored("extra_model_outputs", k, eps[i].id_, j - 1)]]
                ELSE <<>>])

\* extra-output keys declared by some view / by some view of positive length
DeclaredKeys == UNION {episodes[i].extra_model_outputs : i \in 1..Len(episodes)}

DeclaredKeysWithItems ==
    UNION {episodes[i].extra_model_outputs :
               i \in {j \in 1..Len(episodes) : episodes[j].len > 0}}

\* columns the latest call created
FreshColumns == Keys(batch) \ Keys(entry)

\* the values of a column, without the episode they are filed under
Values(col) == [i \in 1..Len(col) |-> col[i].val]

\* number of items of column col filed under episode id
ItemsOf(col, id) == Cardinality({i \in 1..Len(col) : col[i].ep = id})

\* the columns of b do not all have the same item count
Inconsistent(b) ==
    \E c1 \in Keys(b), c2 \in Keys(b) : Len(b.cols[c1]) # Len(b.cols[c2])

(* ---------------- C1 ---------------- *)

\* C1: pass-through. Every key the batch had when __call__ started is still
\* a key when it returns, with exactly the items it had on entry.
C1_PassThrough ==
    Returned =>
        \A k \in Keys(entry) : k \in Keys(batch) /\ batch.cols[k] = entry.cols[k]

\* a call on a batch that already holds action_logp, with an episode that has
\* action_logp values to offer, and that did add other columns
C1_Witness ==
    /\ Returned
    /\ Columns_ACTION_LOGP \in Keys(entry)
    /\ \E i \in 1..Len(episodes) :
          episodes[i].len > 0
          /\ Columns_ACTION_LOGP \in episodes[i].extra_model_outputs
    /\ Columns_ACTIONS \in FreshColumns

(* ---------------- C2 ---------------- *)

C3_TerminalFlags ==
    Returned =>
        \A c \in {Columns_TERMINATEDS, Columns_TRUNCATEDS} \ Keys(entry) :
            \A i \in 1..Len(episodes) :
                episodes[i].len >= 1 =>
                    /\ c \in Keys(batch)
                    /\ Len(batch.cols[c]) >= Offset(episodes, i) + episodes[i].len
                    /\ \A j \in 1..(episodes[i].len - 1) :
                          batch.cols[c][Offset(episodes, i) + j].val = FALSE
                    /\ batch.cols[c][Offset(episodes, i) + episodes[i].len].val =
                          IF c = Columns_TERMINATEDS
                          THEN episodes[i].is_terminated
                          ELSE episodes[i].is_truncated

\* lengths 2 and 1, the first episode terminated, the second truncated:
\* terminateds [F,T, F] and truncateds [F,F, T]
C3_Witness ==
    /\ Returned
    /\ Len(episodes) = 2
    /\ episodes[1].len = 2 /\ episodes[2].len = 1
    /\ episodes[1].is_terminated /\ ~episodes[1].is_truncated
    /\ ~episodes[2].is_terminated /\ episodes[2].is_truncated
    /\ {Columns_TERMINATEDS, Columns_TRUNCATEDS} \subseteq FreshColumns
    /\ Values(batch.cols[Columns_TERMINATEDS]) = <<FALSE, TRUE, FALSE>>
    /\ Values(batch.cols[Columns_TRUNCATEDS]) = <<FALSE, FALSE, TRUE>>

(* ---------------- C4 ---------------- *)

\* C4 as stated: for every input batch and every episode collection the
\* returned batch has the keys actions, rewards, terminateds, truncateds and
\* every extra-output key of any view other than state_in and state_out.
C4_Original ==
    Returned =>
        (CoreColumns \cup (DeclaredKeys \ ReservedColumns)) \subseteq Keys(batch)

\* C4 amended: when some view has length >= 1 the returned batch has the
\* keys actions, rewards, terminateds and truncateds, and it has every
\* extra-output key, other than state_in and state_out, of a view of length
\* >= 1; the keys the call adds are among the four names and the views'
\* extra-output keys, and never state_in or state_out.
C4_Keys ==
    Returned =>
        /\ (\E i \in 1..Len(episodes) : episodes[i].len >= 1) =>
               CoreColumns \subseteq Keys(batch)
        /\ (DeclaredKeysWithItems \ ReservedColumns) \subseteq Keys(batch)
        /\ FreshColumns \subseteq ((CoreColumns \cup DeclaredKeys) \ ReservedColumns)

\* an empty batch and an episode with action_logp values: the call returns
\* exactly the four columns and action_logp
C4_Witness ==
    /\ Returned
    /\ Keys(entry) = {}
    /\ Columns_ACTION_LOGP \in DeclaredKeysWithItems
    /\ Keys(batch) = CoreColumns \cup {Columns_ACTION_LOGP}

(* ---------------- C5 ---------------- *)

\* C5: reserved-column exclusion. A call never creates a state_in or
\* state_out column and never changes one the batch already holds, whatever
\* the episodes' extra_model_outputs contain.
C5_Reserved ==
    called =>
        \A k \in ReservedColumns :
            IF k \in Keys(entry)
            THEN k \in Keys(batch) /\ batch.cols[k] = entry.cols[k]
            ELSE k \notin Keys(batch)

\* episodes with state_in and with state_out values went through a call,
\* one of the two columns already in the batch, the other not
C5_Witness ==
    /\ Returned
    /\ \E i \in 1..Len(episodes) :
          episodes[i].len > 0 /\ Columns_STATE_IN \in episodes[i].extra_model_outputs
    /\ \E i \in 1..Len(episodes) :
          episodes[i].len > 0 /\ Columns_STATE_OUT \in episodes[i].extra_model_outputs
    /\ Columns_STATE_OUT \in Keys(entry)
    /\ Columns_STATE_IN \notin Keys(entry)
    /\ FreshColumns # {}

(* ---------------- C6 ---------------- *)

\* C6: for an extra-output key k outside the skip-set, column k holds
\* exactly the per-timestep values of the views that declare k, in iteration
\* order (its item count is the sum of those views' lengths), and the views
\* that do not declare k do not make the call fail.
C6_ExtraColumns ==
    (called /\ ~entry.none) =>
        /\ ~batch.failed
        /\ \A k \in DeclaredKeys \ skip_columns :
              /\ k \in Keys(batch) => batch.cols[k] = ExpectedExtra(k, episodes)
              /\ ExpectedExtra(k, episodes) # <<>> => k \in Keys(batch)

\* two views of positive length, only the second declaring action_logp:
\* the action_logp column has the second view's length
C6_Witness ==
    /\ Returned
    /\ Len(episodes) = 2
    /\ episodes[1].len > 0 /\ episodes[2].len > 0
    /\ Columns_ACTION_LOGP \notin episodes[1].extra_model_outputs
    /\ Columns_ACTION_LOGP \in episodes[2].extra_model_outputs
    /\ Columns_ACTION_LOGP \in Keys(batch) \ skip_columns
    /\ Len(batch.cols[Columns_ACTION_LOGP]) = episodes[2].len
    /\ Len(batch.cols[Columns_ACTIONS]) = episodes[1].len + episodes[2].len

(* ---------------- C7 ---------------- *)

\* C7: empty-episode handling. A view of length 0 has no item in any column
\* of the batch and a call on a batch mapping does not fail, wherever the
\* view stands and also when every view has length 0.
C7_EmptyEpisodes ==
    (called /\ ~entry.none) =>
        /\ ~batch.failed
        /\ \A i \in 1..Len(episodes) :
              episodes[i].len = 0 =>
                  \A c \in Keys(batch) : ItemsOf(batch.cols[c], episodes[i].id_) = 0

\* an empty first episode that declares action_logp, followed by a
\* non-empty one, in a call that assembled the four columns
C7_Witness ==
    /\ Returned
    /\ Len(episodes) = 2
    /\ episodes[1].len = 0
    /\ Columns_ACTION_LOGP \in episodes[1].extra_model_outputs
    /\ episodes[2].len > 0
    /\ CoreColumns \subseteq FreshColumns

(* ---------------- C8 ---------------- *)

\* C8 as stated: when the columns already in the batch differ in item
\* count, the call fails instead of returning.
C8_Original == (called /\ Inconsistent(entry)) => batch.failed

\* C8 amended: when the columns already in the batch differ in item count,
\* the call still returns (it checks nothing), with every one of those
\* columns unchanged.
C8_NoConsistencyCheck ==
    (called /\ Inconsistent(entry)) =>
        /\ ~batch.failed
        /\ \A k \in Keys(entry) :
              k \in Keys(batch) /\ Len(batch.cols[k]) = Len(entry.cols[k])
        /\ Inconsistent(batch)

\* a batch that came with one actions item and two rewards items, returned
\* with terminateds added
C8_Witness ==
    /\ Returned
    /\ {Columns_ACTIONS, Columns_REWARDS} \subseteq Keys(entry)
    /\ Len(entry.cols[Columns_ACTIONS]) # Len(entry.cols[Columns_REWARDS])
    /\ entry.cols[Columns_ACTIONS][1].ep = 0
    /\ Columns_TERMINATEDS \in FreshColumns

(* ---------------- C9 ---------------- *)

\* C9 as stated: skip_columns is the keys the batch had on entry united with
\* {state_in, state_out}, and the values of an extra-output key named like
\* one of the four columns, absent on entry, are appended to that column by
\* the extra-output pass.
C9_Original ==
    Returned =>
        \A k \in (CoreColumns \cap DeclaredKeysWithItems) \ Keys(entry) :
            /\ k \notin skip_columns
            /\ skip_columns = Keys(entry) \cup ReservedColumns
            /\ k \in Keys(batch)
            /\ batch.cols[k] =
                  ExpectedColumn(k, episodes) \o ExpectedExtra(k, episodes)

\* C9 amended: skip_columns is computed once, after the four column loops:
\* it is the keys the batch had on entry, those of the four columns this call
\* created, and {state_in, state_out}; so an extra-output key named like one
\* of the four columns is skipped and that column holds only what its own
\* loop stored.
C9_SkipAfterColumns ==
    Returned =>
        /\ skip_columns =
              Keys(entry) \cup (CoreColumns \cap Keys(batch)) \cup ReservedColumns
        /\ \A k \in (CoreColumns \cap DeclaredKeys) \cap FreshColumns :
              batch.cols[k] = ExpectedColumn(k, episodes)

\* an episode with extra-output values under "actions", a batch that came
\* without an actions column
C9_Witness ==
    /\ Returned
    /\ Columns_ACTIONS \in FreshColumns
    /\ Columns_ACTIONS \in DeclaredKeysWithItems
    /\ Columns_ACTIONS \in skip_columns

(* ---------------- C10 ---------------- *)

\* C10: idempotence. A call on the batch an earlier call returned, with the
\* same episodes, changes no column and adds no key.
C10_Idempotent == [][Returned => batch' = batch]_vars

\* the state after a second call: it was entered with columns that hold
\* items filed under the episodes, which only an earlier call stores
C10_Witness ==
    /\ Returned
    /\ entry = batch
    /\ {Columns_ACTIONS, Columns_ACTION_LOGP} \subseteq Keys(entry)
    /\ Len(entry.cols[Columns_ACTIONS]) > 0
    /\ entry.cols[Columns_ACTIONS][1].ep >= 1
    /\ Len(entry.cols[Columns_ACTION_LOGP]) > 0
    /\ entry.cols[Columns_ACTION_LOGP][1].ep >= 1

====
